---- MODULE Spec2Model ----
(***************************************************************************)
(* Model of linuxengraver: the document model (Material, ShapeSpec,        *)
(* Document and its JSON persistence), the G-code exporter, and the file   *)
(* actions of the main window working on the canvas scene.                 *)
(*                                                                         *)
(* Numbers.  A Python float is modelled as a record [cls, m, e]:           *)
(*   cls  "fin", "nan", "inf" or "ninf";                                   *)
(*   m    the value in fine units, 16 000 000 of them to the millimetre;   *)
(*   e    the sign of what the float holds beyond m (-1, 0, 1): the        *)
(*        float's exact value is m fine units plus a residue smaller than  *)
(*        any fine unit, e.g. sin(2*pi) = -2.4e-16 is [m = 0, e = -1].     *)
(* Document fields are multiples of 1/16 mm (exact binary floats), so that *)
(* additions are exact and a value such as 0.1875 is a true rounding tie   *)
(* of the "%.3f" conversion.                                               *)
(***************************************************************************)
EXTENDS Integers, Sequences, FiniteSets, TLC

VARIABLES
    document,      \* MainWindow.document: [material, shapes]
    current_file,  \* MainWindow.current_file: a path, or NoPath
    scene,         \* CanvasView._scene: the items, in insertion order
    tool,          \* CanvasView._tool
    preview,       \* CanvasView._preview_item and _drag_start: [idx, start], idx = 0 for None
    fs,            \* the file system: path -> content
    last,          \* history: what the last file action did
    call,          \* the pure-function harness: the call being made
    ret            \* the pure-function harness: its result

vars == <<document, current_file, scene, tool, preview, fs, last, call, ret>>

----------------------------------------------------------------------------
(* Bounds of the model *)

\* longest shape list of an exported or round-tripped Document
MaxShapes == 2
\* most items drawn on the canvas (the workspace rectangle not counted)
MaxItems == 1

----------------------------------------------------------------------------
(* Floats *)

\* fine units per 1/16 mm
FinePerSixteenth == 1000 * 1000
\* fine units per 0.001 mm, the last digit "%.3f" keeps
FinePerMilli == 16 * 1000

Sgn(n) == IF n > 0 THEN 1 ELSE IF n < 0 THEN -1 ELSE 0
Abs(n) == IF n < 0 THEN -n ELSE n

NaN == [cls |-> "nan", m |-> 0, e |-> 0]
PosInf == [cls |-> "inf", m |-> 0, e |-> 0]
NegInf == [cls |-> "ninf", m |-> 0, e |-> 0]
\* the float k/16
Sx(k) == [cls |-> "fin", m |-> k * FinePerSixteenth, e |-> 0]
IsFinite(f) == f.cls = "fin"

\* float addition a + b
FAdd(a, b) ==
    IF a.cls = "nan" \/ b.cls = "nan" THEN NaN
    ELSE IF a.cls = "fin" /\ b.cls = "fin"
         THEN [cls |-> "fin", m |-> a.m + b.m, e |-> Sgn(a.e + b.e)]
    ELSE IF a.cls = "fin" THEN b
    ELSE IF b.cls = "fin" THEN a
    ELSE IF a.cls = b.cls THEN a
    ELSE NaN

FNeg(a) ==
    CASE a.cls = "fin" -> [cls |-> "fin", m |-> -a.m, e |-> -a.e]
      [] a.cls = "inf" -> NegInf
      [] a.cls = "ninf" -> PosInf
      [] OTHER -> NaN

FSub(a, b) == FAdd(a, FNeg(b))

\* a / 2 and 2 * a: exact on binary floats
FHalf(a) == IF a.cls = "fin" THEN [cls |-> "fin", m |-> a.m \div 2, e |-> a.e] ELSE a
FDouble(a) == IF a.cls = "fin" THEN [cls |-> "fin", m |-> 2 * a.m, e |-> a.e] ELSE a

\* the comparison v > 0 (False for NaN)
FGtZero(a) ==
    \/ a.cls = "inf"
    \/ a.cls = "fin" /\ (a.m > 0 \/ (a.m = 0 /\ a.e > 0))

\* min(a, b) on finite floats
FMin(a, b) == IF b.m < a.m THEN b ELSE a

----------------------------------------------------------------------------
(* Text of numbers *)

Digit == <<"0", "1", "2", "3", "4", "5", "6", "7", "8", "9">>

RECURSIVE NatToChars(_)
NatToChars(n) ==
    IF n < 10 THEN <<Digit[n + 1]>>
    ELSE NatToChars(n \div 10) \o <<Digit[(n % 10) + 1]>>

\* the value of a digit character, -1 if it is none
DigitVal(c) ==
    IF \E d \in 1..10 : Digit[d] = c
    THEN (CHOOSE d \in 1..10 : Digit[d] = c) - 1
    ELSE -1

RECURSIVE CharsToNat(_)
CharsToNat(s) ==
    IF Len(s) = 0 THEN 0
    ELSE 10 * CharsToNat(SubSeq(s, 1, Len(s) - 1)) + DigitVal(s[Len(s)])

RECURSIVE Pow10(_)
Pow10(n) == IF n = 0 THEN 1 ELSE 10 * Pow10(n - 1)

\* the index of the first c in s, 0 if there is none
IndexOf(s, c) ==
    IF \E i \in 1..Len(s) : s[i] = c
    THEN CHOOSE i \in 1..Len(s) : s[i] = c /\ \A j \in 1..(i - 1) : s[j] # c
    ELSE 0

\* how many characters follow the decimal point of a rendered number (0 without a point)
DecimalsOf(s) == IF IndexOf(s, ".") = 0 THEN 0 ELSE Len(s) - IndexOf(s, ".")

\* f"{v:.3f}": fixed point, three decimals, correctly rounded (ties to even)
Fmt3(v) ==
    CASE v.cls = "nan" -> <<"n", "a", "n">>
      [] v.cls = "inf" -> <<"i", "n", "f">>
      [] v.cls = "ninf" -> <<"-", "i", "n", "f">>
      [] OTHER ->
         LET a == Abs(v.m)
             q == a \div FinePerMilli
             rem == a % FinePerMilli
             emag == IF v.m = 0 THEN Abs(v.e) ELSE v.e * Sgn(v.m)
             up == \/ 2 * rem > FinePerMilli
                   \/ /\ 2 * rem = FinePerMilli
                      /\ (emag > 0 \/ (emag = 0 /\ q % 2 = 1))
             t == IF up THEN q + 1 ELSE q
             neg == v.m < 0 \/ (v.m = 0 /\ v.e < 0)
             frac == t % 1000
         IN  (IF neg THEN <<"-">> ELSE <<>>)
             \o NatToChars(t \div 1000) \o <<".">>
             \o <<Digit[(frac \div 100) + 1], Digit[((frac \div 10) % 10) + 1], Digit[(frac % 10) + 1]>>

----------------------------------------------------------------------------
(* JSON text.  A text is modelled by what the JSON reader makes of it: wf   *)
(* tells whether it is well-formed, val is its value tree.  Numbers stay    *)
(* the characters of their token: writing renders them, reading parses.     *)

JNull == [t |-> "null"]
JNum(chars) == [t |-> "num", n |-> chars]
JStr(str) == [t |-> "str", s |-> str]
JArr(seq) == [t |-> "arr", a |-> seq]
JObj(rec) == [t |-> "obj", o |-> rec]

Text(json) == [wf |-> TRUE, val |-> json]
MalformedText == [wf |-> FALSE, val |-> JNull]

\* s without its trailing "0" characters, keeping at least one character
RECURSIVE StripZeros(_)
StripZeros(s) ==
    IF Len(s) > 1 /\ s[Len(s)] = "0" THEN StripZeros(SubSeq(s, 1, Len(s) - 1)) ELSE s

\* a writer that keeps three decimals of a number
NumToJsonRounded(f) == IF f.cls # "fin" THEN JNull ELSE JNum(Fmt3(f))

\* the JSON writer's number: the shortest decimal that reads back as the same float;
\* a non-finite float is written as null
NumToJson(f) ==
    IF f.cls # "fin" THEN JNull
    ELSE LET k == Abs(f.m) \div FinePerSixteenth
             frac == (k % 16) * 625
             fracChars == <<Digit[(frac \div 1000) + 1], Digit[((frac \div 100) % 10) + 1],
                            Digit[((frac \div 10) % 10) + 1], Digit[(frac % 10) + 1]>>
         IN  JNum((IF f.m < 0 THEN <<"-">> ELSE <<>>)
                  \o NatToChars(k \div 16) \o <<".">> \o StripZeros(fracChars))

\* the JSON reader's float from a number token (NaN, Infinity and -Infinity are accepted)
ParseNumber(chars) ==
    IF chars = <<"N", "a", "N">> THEN NaN
    ELSE IF chars = <<"I", "n", "f", "i", "n", "i", "t", "y">> THEN PosInf
    ELSE IF chars = <<"-", "I", "n", "f", "i", "n", "i", "t", "y">> THEN NegInf
    ELSE LET neg == Len(chars) > 0 /\ chars[1] = "-"
             body == IF neg THEN SubSeq(chars, 2, Len(chars)) ELSE chars
             dot == IndexOf(body, ".")
             ip == IF dot = 0 THEN body ELSE SubSeq(body, 1, dot - 1)
             fp == IF dot = 0 THEN <<>> ELSE SubSeq(body, dot + 1, Len(body))
             mag == CharsToNat(ip) * 16 * FinePerSixteenth
                    + CharsToNat(fp) * 16 * (FinePerSixteenth \div Pow10(Len(fp)))
         IN  [cls |-> "fin", m |-> IF neg THEN -mag ELSE mag, e |-> 0]

----------------------------------------------------------------------------
(* model/material.py, model/shapes.py, model/document.py *)

\* every failed validation raises this one exception class
ValidationError == "ValidationError"
Fail(errs) == [ok |-> FALSE, kind |-> ValidationError, errors |-> errs]

\* Field(gt=0)
GtZeroConstraint(v) == FGtZero(v)

\* Material._finite: "if not (v > 0): raise ValueError"
FiniteValidator(v) == FGtZero(v)

\* the errors of one Material field holding the float v
MaterialFieldErrors(v) ==
    IF ~GtZeroConstraint(v) THEN {"greater_than"}
    ELSE IF ~FiniteValidator(v) THEN {"value_error"}
    ELSE {}

\* Material(width=w, height=h, thickness=t)
Material(w, h, t) ==
    LET errs == MaterialFieldErrors(w) \cup MaterialFieldErrors(h) \cup MaterialFieldErrors(t)
    IN  IF errs = {} THEN [ok |-> TRUE, val |-> [width |-> w, height |-> h, thickness |-> t]]
        ELSE Fail(errs)

RectSpec(x, y, w, h) == [type |-> "rect", x |-> x, y |-> y, w |-> w, h |-> h]
CircleSpec(cx, cy, r) == [type |-> "circle", cx |-> cx, cy |-> cy, r |-> r]

\* Document(material=m, shapes=ss)
Document(m, ss) == [material |-> m, shapes |-> ss]

\* a float field of a JSON object: the errors of reading it
FloatErrors(o, key) ==
    IF key \notin DOMAIN o THEN {"missing"}
    ELSE IF o[key].t = "num" THEN {}
    ELSE IF o[key].t = "str" THEN {"float_parsing"}
    ELSE {"float_type"}

FloatValue(o, key) == ParseNumber(o[key].n)

MaterialFromJson(j) ==
    IF j.t # "obj" THEN Fail({"model_type"})
    ELSE LET keys == {"width", "height", "thickness"}
             ferrs == UNION {FloatErrors(j.o, k) : k \in keys}
             verrs == UNION {IF FloatErrors(j.o, k) = {} THEN MaterialFieldErrors(FloatValue(j.o, k)) ELSE {}
                             : k \in keys}
         IN  IF ferrs \cup verrs = {}
             THEN Material(FloatValue(j.o, "width"), FloatValue(j.o, "height"), FloatValue(j.o, "thickness"))
             ELSE Fail(ferrs \cup verrs)

\* the discriminated union ShapeSpec: dispatch on the tag "type"
ShapeFromJson(j) ==
    IF j.t # "obj" THEN Fail({"model_attributes_type"})
    ELSE IF "type" \notin DOMAIN j.o THEN Fail({"union_tag_not_found"})
    ELSE IF j.o["type"].t # "str" THEN Fail({"union_tag_invalid"})
    ELSE IF j.o["type"].s = "rect"
         THEN LET errs == UNION {FloatErrors(j.o, k) : k \in {"x", "y", "w", "h"}}
              IN  IF errs = {}
                  THEN [ok |-> TRUE, val |-> RectSpec(FloatValue(j.o, "x"), FloatValue(j.o, "y"),
                                                      FloatValue(j.o, "w"), FloatValue(j.o, "h"))]
                  ELSE Fail(errs)
    ELSE IF j.o["type"].s = "circle"
         THEN LET errs == UNION {FloatErrors(j.o, k) : k \in {"cx", "cy", "r"}}
              IN  IF errs = {}
                  THEN [ok |-> TRUE, val |-> CircleSpec(FloatValue(j.o, "cx"), FloatValue(j.o, "cy"),
                                                        FloatValue(j.o, "r"))]
                  ELSE Fail(errs)
    ELSE Fail({"union_tag_invalid"})

\* a tag that names a variant
KnownTag(j) == j.t = "obj" /\ "type" \in DOMAIN j.o /\ j.o["type"].t = "str" /\ j.o["type"].s \in {"rect", "circle"}
HasTag(j) == j.t = "obj" /\ "type" \in DOMAIN j.o

\* a reader that skips the entries whose tag names no variant
ShapesFromJsonSkipping(o) ==
    IF "shapes" \notin DOMAIN o THEN [ok |-> TRUE, val |-> <<>>]
    ELSE IF o["shapes"].t # "arr" THEN Fail({"list_type"})
    ELSE LET a == SelectSeq(o["shapes"].a, LAMBDA j : ~HasTag(j) \/ KnownTag(j))
             rs == [i \in 1..Len(a) |-> ShapeFromJson(a[i])]
             errs == UNION {IF rs[i].ok THEN {} ELSE rs[i].errors : i \in 1..Len(a)}
         IN  IF errs = {} THEN [ok |-> TRUE, val |-> [i \in 1..Len(a) |-> rs[i].val]]
             ELSE Fail(errs)

\* List[ShapeSpec], default_factory=list
ShapesFromJson(o) ==
    IF "shapes" \notin DOMAIN o THEN [ok |-> TRUE, val |-> <<>>]
    ELSE IF o["shapes"].t # "arr" THEN Fail({"list_type"})
    ELSE LET a == o["shapes"].a
             rs == [i \in 1..Len(a) |-> ShapeFromJson(a[i])]
             errs == UNION {IF rs[i].ok THEN {} ELSE rs[i].errors : i \in 1..Len(a)}
         IN  IF errs = {} THEN [ok |-> TRUE, val |-> [i \in 1..Len(a) |-> rs[i].val]]
             ELSE Fail(errs)

\* Document.from_json: cls.model_validate_json(data)
from_json(data) ==
    IF ~data.wf THEN Fail({"json_invalid"})
    ELSE IF data.val.t # "obj" THEN Fail({"model_type"})
    ELSE LET o == data.val.o
             mr == IF "material" \in DOMAIN o THEN MaterialFromJson(o["material"]) ELSE Fail({"missing"})
             sr == ShapesFromJson(o)
             errs == (IF mr.ok THEN {} ELSE mr.errors) \cup (IF sr.ok THEN {} ELSE sr.errors)
         IN  IF errs = {} THEN [ok |-> TRUE, val |-> Document(mr.val, sr.val)]
             ELSE Fail(errs)

ShapeToJson(s) ==
    IF s.type = "rect"
    THEN JObj([type |-> JStr("rect"), x |-> NumToJson(s.x), y |-> NumToJson(s.y),
               w |-> NumToJson(s.w), h |-> NumToJson(s.h)])
    ELSE JObj([type |-> JStr("circle"), cx |-> NumToJson(s.cx), cy |-> NumToJson(s.cy),
               r |-> NumToJson(s.r)])

\* Document.to_json: self.model_dump_json(indent=2)
to_json(doc) ==
    Text(JObj([material |-> JObj([width |-> NumToJson(doc.material.width),
                                  height |-> NumToJson(doc.material.height),
                                  thickness |-> NumToJson(doc.material.thickness)]),
               shapes |-> JArr([i \in 1..Len(doc.shapes) |-> ShapeToJson(doc.shapes[i])])]))

----------------------------------------------------------------------------
(* export/gcode.py *)

\* "36-segment polygon": the divisor of the sample angles 2*pi*i/36
Segments == 36

\* math.cos(2 * math.pi * i / 36) for i = 0..36, entry i + 1: h is the value in millionths,
\* e the sign of what the float holds beyond h (cos(pi/2) is 6.1e-17, not 0)
CosTable == <<
    [h |-> 1000000, e |-> 0], [h |-> 984808, e |-> -1], [h |-> 939693, e |-> -1], [h |-> 866025, e |-> 1],
    [h |-> 766044, e |-> 1], [h |-> 642788, e |-> -1], [h |-> 500000, e |-> 1], [h |-> 342020, e |-> 1],
    [h |-> 173648, e |-> 1], [h |-> 0, e |-> 1], [h |-> -173648, e |-> -1], [h |-> -342020, e |-> -1],
    [h |-> -500000, e |-> 1], [h |-> -642788, e |-> 1], [h |-> -766044, e |-> -1], [h |-> -866025, e |-> -1],
    [h |-> -939693, e |-> 1], [h |-> -984808, e |-> 1], [h |-> -1000000, e |-> 0], [h |-> -984808, e |-> 1],
    [h |-> -939693, e |-> 1], [h |-> -866025, e |-> -1], [h |-> -766044, e |-> -1], [h |-> -642788, e |-> 1],
    [h |-> -500000, e |-> -1], [h |-> -342020, e |-> -1], [h |-> -173648, e |-> -1], [h |-> 0, e |-> -1],
    [h |-> 173648, e |-> 1], [h |-> 342020, e |-> 1], [h |-> 500000, e |-> -1], [h |-> 642788, e |-> -1],
    [h |-> 766044, e |-> 1], [h |-> 866025, e |-> 1], [h |-> 939693, e |-> -1], [h |-> 984808, e |-> -1],
    [h |-> 1000000, e |-> 0]
>>

\* math.sin(2 * math.pi * i / 36) for i = 0..36, entry i + 1 (sin(2*pi) is -2.4e-16, not 0)
SinTable == <<
    [h |-> 0, e |-> 0], [h |-> 173648, e |-> 1], [h |-> 342020, e |-> 1], [h |-> 500000, e |-> -1],
    [h |-> 642788, e |-> -1], [h |-> 766044, e |-> 1], [h |-> 866025, e |-> 1], [h |-> 939693, e |-> -1],
    [h |-> 984808, e |-> -1], [h |-> 1000000, e |-> 0], [h |-> 984808, e |-> -1], [h |-> 939693, e |-> -1],
    [h |-> 866025, e |-> 1], [h |-> 766044, e |-> 1], [h |-> 642788, e |-> -1], [h |-> 500000, e |-> 1],
    [h |-> 342020, e |-> 1], [h |-> 173648, e |-> 1], [h |-> 0, e |-> 1], [h |-> -173648, e |-> -1],
    [h |-> -342020, e |-> -1], [h |-> -500000, e |-> -1], [h |-> -642788, e |-> 1], [h |-> -766044, e |-> -1],
    [h |-> -866025, e |-> -1], [h |-> -939693, e |-> 1], [h |-> -984808, e |-> 1], [h |-> -1000000, e |-> 0],
    [h |-> -984808, e |-> 1], [h |-> -939693, e |-> 1], [h |-> -866025, e |-> -1], [h |-> -766044, e |-> -1],
    [h |-> -642788, e |-> 1], [h |-> -500000, e |-> 1], [h |-> -342020, e |-> -1], [h |-> -173648, e |-> -1],
    [h |-> 0, e |-> -1]
>>

\* r * t for a float r (a multiple of 1/16) and a table entry t
FMulTrig(r, t) ==
    CASE r.cls = "nan" -> NaN
      [] r.cls = "fin" ->
         LET k == r.m \div FinePerSixteenth
         IN  [cls |-> "fin", m |-> k * t.h, e |-> Sgn(k) * t.e]
      [] OTHER ->
         LET ts == IF t.h # 0 THEN Sgn(t.h) ELSE t.e
             rs == IF r.cls = "inf" THEN 1 ELSE -1
         IN  IF ts = 0 THEN NaN ELSE IF rs * ts > 0 THEN PosInf ELSE NegInf

\* one word of a line: a letter and the characters of its number
Word(letter, chars) == [l |-> letter, n |-> chars]
\* one line of the program: the command, its words, its comment ("" for none)
Line(cmd, words, comment) == [cmd |-> cmd, words |-> words, comment |-> comment]

_preamble ==
    << Line("", <<>>, "Linux Engraver stub G-code"),
       Line("G90", <<>>, "absolute positioning"),
       Line("G21", <<>>, "units in mm"),
       Line("G0", <<Word("Z", <<"5", ".", "0">>)>>, "safe height") >>

_postamble ==
    << Line("G0", <<Word("Z", <<"5", ".", "0">>)>>, ""),
       Line("M5", <<>>, "spindle stop"),
       Line("M2", <<>>, "program end") >>

\* "G1 Z0.000 F300.0"
PlungeLine == Line("G1", <<Word("Z", <<"0", ".", "0", "0", "0">>), Word("F", <<"3", "0", "0", ".", "0">>)>>, "")
\* "G0 Z5.000"
RetractLine == Line("G0", <<Word("Z", <<"5", ".", "0", "0", "0">>)>>, "")
\* the literal " F600.0"
CutFeed == Word("F", <<"6", "0", "0", ".", "0">>)

\* pts[i] of the circle: (cx + r*cos(2*pi*i/36), cy + r*sin(2*pi*i/36))
SamplePoint(s, i) ==
    [x |-> FAdd(s.cx, FMulTrig(s.r, CosTable[i + 1])),
     y |-> FAdd(s.cy, FMulTrig(s.r, SinTable[i + 1]))]

\* a rectangle whose corners are visited in crossing order
RectToGcodeCrossed(s) ==
    << Line("G0", <<Word("X", Fmt3(s.x)), Word("Y", Fmt3(s.y))>>, ""),
       PlungeLine,
       Line("G1", <<Word("X", Fmt3(FAdd(s.x, s.w))), Word("Y", Fmt3(s.y)), CutFeed>>, ""),
       Line("G1", <<Word("X", Fmt3(s.x)), Word("Y", Fmt3(FAdd(s.y, s.h)))>>, ""),
       Line("G1", <<Word("X", Fmt3(FAdd(s.x, s.w))), Word("Y", Fmt3(FAdd(s.y, s.h)))>>, ""),
       Line("G1", <<Word("X", Fmt3(s.x)), Word("Y", Fmt3(s.y))>>, ""),
       RetractLine >>

\* a rectangle whose corners are written with the default conversion instead of ".3f"
RectToGcodeUnformatted(s) ==
    LET Shortest(f) == IF f.cls = "fin" THEN NumToJson(f).n ELSE Fmt3(f) IN
    << Line("G0", <<Word("X", Shortest(s.x)), Word("Y", Shortest(s.y))>>, ""),
       PlungeLine,
       Line("G1", <<Word("X", Fmt3(FAdd(s.x, s.w))), Word("Y", Fmt3(s.y)), CutFeed>>, ""),
       Line("G1", <<Word("X", Fmt3(FAdd(s.x, s.w))), Word("Y", Fmt3(FAdd(s.y, s.h)))>>, ""),
       Line("G1", <<Word("X", Fmt3(s.x)), Word("Y", Fmt3(FAdd(s.y, s.h)))>>, ""),
       Line("G1", <<Word("X", Fmt3(s.x)), Word("Y", Fmt3(s.y))>>, ""),
       RetractLine >>

\* a rectangle that leaves the tool at the cut depth: no retract line
RectToGcodeNoRetract(s) ==
    << Line("G0", <<Word("X", Fmt3(s.x)), Word("Y", Fmt3(s.y))>>, ""),
       PlungeLine,
       Line("G1", <<Word("X", Fmt3(FAdd(s.x, s.w))), Word("Y", Fmt3(s.y)), CutFeed>>, ""),
       Line("G1", <<Word("X", Fmt3(FAdd(s.x, s.w))), Word("Y", Fmt3(FAdd(s.y, s.h)))>>, ""),
       Line("G1", <<Word("X", Fmt3(s.x)), Word("Y", Fmt3(FAdd(s.y, s.h)))>>, ""),
       Line("G1", <<Word("X", Fmt3(s.x)), Word("Y", Fmt3(s.y))>>, "") >>

RectToGcode(s) ==
    << Line("G0", <<Word("X", Fmt3(s.x)), Word("Y", Fmt3(s.y))>>, ""),
       PlungeLine,
       Line("G1", <<Word("X", Fmt3(FAdd(s.x, s.w))), Word("Y", Fmt3(s.y)), CutFeed>>, ""),
       Line("G1", <<Word("X", Fmt3(FAdd(s.x, s.w))), Word("Y", Fmt3(FAdd(s.y, s.h)))>>, ""),
       Line("G1", <<Word("X", Fmt3(s.x)), Word("Y", Fmt3(FAdd(s.y, s.h)))>>, ""),
       Line("G1", <<Word("X", Fmt3(s.x)), Word("Y", Fmt3(s.y))>>, ""),
       RetractLine >>

\* a circle sampled at i = 0..35 only: the polygon is left open
CircleToGcodeOpen(s) ==
    LET pts == [i \in 1..Segments |-> SamplePoint(s, i - 1)]
    IN  << Line("G0", <<Word("X", Fmt3(pts[1].x)), Word("Y", Fmt3(pts[1].y))>>, ""), PlungeLine >>
        \o [i \in 1..(Segments - 1) |->
               Line("G1", <<Word("X", Fmt3(pts[i + 1].x)), Word("Y", Fmt3(pts[i + 1].y)), CutFeed>>, "")]
        \o << RetractLine >>

\* a circle whose feed is written on the first cutting line only
CircleToGcodeModalFeed(s) ==
    LET pts == [i \in 1..(Segments + 1) |-> SamplePoint(s, i - 1)]
    IN  << Line("G0", <<Word("X", Fmt3(pts[1].x)), Word("Y", Fmt3(pts[1].y))>>, ""), PlungeLine >>
        \o [i \in 1..Segments |->
               Line("G1", <<Word("X", Fmt3(pts[i + 1].x)), Word("Y", Fmt3(pts[i + 1].y))>>
                          \o (IF i = 1 THEN <<CutFeed>> ELSE <<>>), "")]
        \o << RetractLine >>

CircleToGcode(s) ==
    LET pts == [i \in 1..(Segments + 1) |-> SamplePoint(s, i - 1)]
    IN  << Line("G0", <<Word("X", Fmt3(pts[1].x)), Word("Y", Fmt3(pts[1].y))>>, ""), PlungeLine >>
        \o [i \in 1..Segments |->
               Line("G1", <<Word("X", Fmt3(pts[i + 1].x)), Word("Y", Fmt3(pts[i + 1].y)), CutFeed>>, "")]
        \o << RetractLine >>

_shape_to_gcode(s) ==
    IF s.type = "rect" THEN RectToGcode(s)
    ELSE IF s.type = "circle" THEN CircleToGcode(s)
    ELSE <<>>

RECURSIVE ShapesToGcode(_)
ShapesToGcode(ss) ==
    IF Len(ss) = 0 THEN <<>> ELSE _shape_to_gcode(Head(ss)) \o ShapesToGcode(Tail(ss))

RECURSIVE Reversed(_)
Reversed(ss) == IF Len(ss) = 0 THEN <<>> ELSE Reversed(Tail(ss)) \o <<Head(ss)>>

\* an exporter that emits the shapes last to first
export_gcode_reversed(doc) == _preamble \o ShapesToGcode(Reversed(doc.shapes)) \o _postamble

\* the lines export_gcode writes, each ended by a newline
export_gcode(doc) == _preamble \o ShapesToGcode(doc.shapes) \o _postamble

----------------------------------------------------------------------------
(* The state after MainWindow.__init__ *)

NoPath == ""

\* the workspace rectangle set_workspace_size puts in the scene
WorkspaceItem(width, height) ==
    [kind |-> "rect", x |-> Sx(0), y |-> Sx(0), w |-> width, h |-> height, workspace |-> TRUE]

\* Material(width=100.0, height=100.0, thickness=10.0)
DefaultMaterial == Material(Sx(1600), Sx(1600), Sx(160)).val

\* no item is being dragged
NoPreview == [idx |-> 0, start |-> [x |-> Sx(0), y |-> Sx(0)]]

NoCall == [op |-> "none"]
NoRet == [done |-> FALSE]
Ret(v) == [done |-> TRUE, val |-> v]

\* the paths the file dialogs can return
Paths == {"a.json"}

\* what a file holds
Absent == [kind |-> "absent"]
JsonFile(data) == [kind |-> "json", data |-> data]
GcodeFile(lines) == [kind |-> "gcode", lines |-> lines]

\* a file system without files
InitialFiles == [p \in Paths |-> Absent]

WindowInit ==
    /\ document = Document(DefaultMaterial, <<>>)
    /\ current_file = NoPath
    /\ scene = <<WorkspaceItem(DefaultMaterial.width, DefaultMaterial.height)>>
    /\ tool = "select"
    /\ preview = NoPreview
    /\ last = [op |-> "init", outcome |-> "ok"]

windowVars == <<document, current_file, scene, tool, preview, last>>

----------------------------------------------------------------------------
(* Inputs *)

SeqsUpTo(S, n) == UNION {[1..k -> S] : k \in 0..n}

\* the shapes exported and round-tripped: the rectangle and the circle of the
\* specification's examples, degenerate ones (zero width, height, radius), a
\* negative radius, coordinates on a rounding tie (3/16 = 0.1875, 5/16 = 0.3125)
\* and non-finite fields
ShapeInputs ==
    { RectSpec(Sx(0), Sx(0), Sx(160), Sx(80)),
      RectSpec(Sx(3), Sx(-8), Sx(0), Sx(16)),
      RectSpec(Sx(16), Sx(16), Sx(5), Sx(0)),
      RectSpec(NaN, Sx(0), Sx(16), PosInf),
      CircleSpec(Sx(0), Sx(0), Sx(160)),
      CircleSpec(Sx(16), Sx(3), Sx(160)),
      CircleSpec(Sx(-8), Sx(1), Sx(0)),
      CircleSpec(Sx(0), Sx(5), Sx(-16)),
      CircleSpec(Sx(0), Sx(0), PosInf) }

ShapeFields(s) == IF s.type = "rect" THEN {s.x, s.y, s.w, s.h} ELSE {s.cx, s.cy, s.r}
FiniteShape(s) == \A f \in ShapeFields(s) : IsFinite(f)

----------------------------------------------------------------------------
(* SpecGcode: export_gcode applied to a Document *)

InitGcode ==
    /\ WindowInit
    /\ fs = InitialFiles
    /\ call \in {[op |-> "export_gcode", arg |-> Document(DefaultMaterial, ss)]
                   : ss \in SeqsUpTo(ShapeInputs, MaxShapes)}
    /\ ret = NoRet

RunExportGcode ==
    /\ call.op = "export_gcode"
    /\ ~ret.done
    /\ ret' = Ret(export_gcode(call.arg))
    /\ UNCHANGED <<windowVars, fs, call>>

NextGcode == RunExportGcode

SpecGcode == InitGcode /\ [][NextGcode]_vars

----------------------------------------------------------------------------
(* Reading a program *)

HasWord(line, letter) == \E i \in 1..Len(line.words) : line.words[i].l = letter
\* the characters of the word of that letter, <<>> if the line has none
WordOf(line, letter) ==
    IF HasWord(line, letter)
    THEN line.words[CHOOSE i \in 1..Len(line.words) : line.words[i].l = letter].n
    ELSE <<>>
\* the line moves to the point whose coordinates render as xs, ys
MovesTo(line, cmd, xs, ys) ==
    /\ line.cmd = cmd
    /\ WordOf(line, "X") = xs
    /\ WordOf(line, "Y") = ys
    /\ ~HasWord(line, "Z")
\* the line moves the tool to the height zs and nowhere else
MovesZ(line, cmd, zs) ==
    /\ line.cmd = cmd
    /\ WordOf(line, "Z") = zs
    /\ ~HasWord(line, "X") /\ ~HasWord(line, "Y")

\* a number rendered with three decimals, in thousandths
Thousandths(chars) ==
    LET neg == chars[1] = "-"
        body == IF neg THEN Tail(chars) ELSE chars
        dot == IndexOf(body, ".")
        mag == 1000 * CharsToNat(SubSeq(body, 1, dot - 1)) + CharsToNat(SubSeq(body, dot + 1, Len(body)))
    IN  IF neg THEN -mag ELSE mag

\* how many lines a shape takes, and where the lines of shape i start
LinesOf(s) == IF s.type = "rect" THEN 7 ELSE Segments + 3
RECURSIVE LinesOfAll(_)
LinesOfAll(ss) == IF Len(ss) = 0 THEN 0 ELSE LinesOf(Head(ss)) + LinesOfAll(Tail(ss))
StartOf(ss, i) == Len(_preamble) + LinesOfAll(SubSeq(ss, 1, i - 1))

\* the export under way: its Document's shapes and, once done, the program
Exported == call.op = "export_gcode" /\ ret.done
ExpShapes == call.arg.shapes
Program == ret.val
\* line k of shape i
ShapeLine(i, k) == Program[StartOf(ExpShapes, i) + k]

----------------------------------------------------------------------------
(* C4 *)

ShapesInOrder ==
    \A i \in 1..Len(ExpShapes) :
        SubSeq(Program, StartOf(ExpShapes, i) + 1, StartOf(ExpShapes, i) + LinesOf(ExpShapes[i]))
            = _shape_to_gcode(ExpShapes[i])

PostambleLast ==
    LET n == Len(Program)
    IN  /\ MovesZ(Program[n - 2], "G0", <<"5", ".", "0">>)
        /\ Program[n - 1].cmd = "M5" /\ Program[n - 1].words = <<>>
        /\ Program[n].cmd = "M2" /\ Program[n].words = <<>>

\* C4 as stated: the program is a three-line preamble (absolute positioning, millimetres,
\* rapid to safe height), the shapes' lines in Document order, the three-line postamble;
\* six lines for a Document without shapes.
C4_Original ==
    Exported =>
        /\ Program[1].cmd = "G90"
        /\ Program[2].cmd = "G21"
        /\ MovesZ(Program[3], "G0", <<"5", ".", "0">>)
        /\ Len(Program) = 3 + LinesOfAll(ExpShapes) + 3
        /\ PostambleLast

\* C4, amended: the program written by export_gcode is exactly a four-line preamble (a
\* title comment line, then absolute positioning, millimetre units, rapid to safe height),
\* then the lines of each shape in Document order, then the three-line postamble (rapid to
\* safe height, spindle stop, program end); seven lines for a Document without shapes.
C4_ProgramLayout ==
    Exported =>
        /\ Len(Program) = 4 + LinesOfAll(ExpShapes) + 3
        /\ Program[1].cmd = "" /\ Program[1].words = <<>> /\ Program[1].comment # ""
        /\ Program[2].cmd = "G90" /\ Program[2].words = <<>>
        /\ Program[3].cmd = "G21" /\ Program[3].words = <<>>
        /\ MovesZ(Program[4], "G0", <<"5", ".", "0">>)
        /\ ShapesInOrder
        /\ PostambleLast
        /\ (Len(ExpShapes) = 0 => Program = _preamble \o _postamble)

C4_Witness ==
    /\ Exported
    /\ Len(ExpShapes) = 2
    /\ ExpShapes[1].type = "circle" /\ ExpShapes[2].type = "rect"

----------------------------------------------------------------------------
(* C5 *)

\* C5: a RectSpec(x, y, w, h) is emitted as exactly seven moves: rapid to (x, y), plunge to
\* the cut depth, linear to (x+w, y), (x+w, y+h), (x, y+h), (x, y), retract to the safe
\* height; the last linear move ends where the rapid went, also when w or h is zero.
C5_RectMoves ==
    Exported =>
        \A i \in 1..Len(ExpShapes) :
            LET s == ExpShapes[i] IN
            s.type = "rect" =>
                /\ MovesTo(ShapeLine(i, 1), "G0", Fmt3(s.x), Fmt3(s.y))
                /\ MovesZ(ShapeLine(i, 2), "G1", <<"0", ".", "0", "0", "0">>)
                /\ MovesTo(ShapeLine(i, 3), "G1", Fmt3(FAdd(s.x, s.w)), Fmt3(s.y))
                /\ MovesTo(ShapeLine(i, 4), "G1", Fmt3(FAdd(s.x, s.w)), Fmt3(FAdd(s.y, s.h)))
                /\ MovesTo(ShapeLine(i, 5), "G1", Fmt3(s.x), Fmt3(FAdd(s.y, s.h)))
                /\ MovesTo(ShapeLine(i, 6), "G1", Fmt3(s.x), Fmt3(s.y))
                /\ MovesZ(ShapeLine(i, 7), "G0", <<"5", ".", "0", "0", "0">>)
                /\ WordOf(ShapeLine(i, 6), "X") = WordOf(ShapeLine(i, 1), "X")
                /\ WordOf(ShapeLine(i, 6), "Y") = WordOf(ShapeLine(i, 1), "Y")
                /\ IF i < Len(ExpShapes)
                   THEN ShapeLine(i, 8).cmd = "G0" /\ HasWord(ShapeLine(i, 8), "X")
                   ELSE ShapeLine(i, 8) = _postamble[1]

\* a rectangle of zero width has been exported after another shape
C5_Witness ==
    /\ Exported
    /\ Len(ExpShapes) = 2
    /\ ExpShapes[2].type = "rect" /\ ExpShapes[2].w = Sx(0) /\ ExpShapes[2].h # Sx(0)
    /\ ExpShapes[1].type = "rect" /\ ExpShapes[1].h = Sx(0)

----------------------------------------------------------------------------
(* C6 *)

\* the lines of circle i: rapid to sample 0, plunge, 36 linear moves to samples 1..36, retract
CircleLines(i) ==
    LET s == ExpShapes[i] IN
    /\ MovesTo(ShapeLine(i, 1), "G0", Fmt3(SamplePoint(s, 0).x), Fmt3(SamplePoint(s, 0).y))
    /\ MovesZ(ShapeLine(i, 2), "G1", <<"0", ".", "0", "0", "0">>)
    /\ \A k \in 1..36 :
           MovesTo(ShapeLine(i, k + 2), "G1", Fmt3(SamplePoint(s, k).x), Fmt3(SamplePoint(s, k).y))
    /\ MovesZ(ShapeLine(i, 39), "G0", <<"5", ".", "0", "0", "0">>)
    /\ IF i < Len(ExpShapes)
       THEN ShapeLine(i, 40).cmd = "G0" /\ HasWord(ShapeLine(i, 40), "X")
       ELSE ShapeLine(i, 40) = _postamble[1]

----------------------------------------------------------------------------
(* C7 *)

IsCutLine(line) == line.cmd = "G1" /\ HasWord(line, "X")
ShapeLineNumbers == (Len(_preamble) + 1)..(Len(Program) - Len(_postamble))

\* C7 as stated: no rapid carries a feed, the plunge carries the plunge feed, and every
\* cutting line of a shape carries the cut feed.
C7_Original ==
    Exported =>
        /\ \A n \in 1..Len(Program) : Program[n].cmd = "G0" => ~HasWord(Program[n], "F")
        /\ \A n \in ShapeLineNumbers :
               /\ (Program[n].cmd = "G1" /\ HasWord(Program[n], "Z"))
                      => WordOf(Program[n], "F") = <<"3", "0", "0", ".", "0">>
               /\ IsCutLine(Program[n]) => WordOf(Program[n], "F") = <<"6", "0", "0", ".", "0">>

\* C7, amended: no rapid line carries a feed and every plunge line carries the plunge feed
\* 300.0; every cutting line of a circle carries the cut feed 600.0, and of the four cutting
\* lines of a rectangle only the first carries it: the other three carry no feed.
C7_FeedWords ==
    Exported =>
        /\ \A n \in 1..Len(Program) : Program[n].cmd = "G0" => ~HasWord(Program[n], "F")
        /\ \A i \in 1..Len(ExpShapes) :
               /\ WordOf(ShapeLine(i, 2), "F") = <<"3", "0", "0", ".", "0">>
               /\ ExpShapes[i].type = "circle" =>
                      \A k \in 3..38 : /\ IsCutLine(ShapeLine(i, k))
                                       /\ WordOf(ShapeLine(i, k), "F") = <<"6", "0", "0", ".", "0">>
               /\ ExpShapes[i].type = "rect" =>
                      /\ \A k \in 3..6 : IsCutLine(ShapeLine(i, k))
                      /\ WordOf(ShapeLine(i, 3), "F") = <<"6", "0", "0", ".", "0">>
                      /\ \A k \in 4..6 : ~HasWord(ShapeLine(i, k), "F")

C7_Witness ==
    /\ Exported
    /\ Len(ExpShapes) = 2
    /\ ExpShapes[1].type = "rect" /\ ExpShapes[2].type = "circle"

----------------------------------------------------------------------------
(* C8 *)

\* C8 as stated: in the lines of the shapes every X, Y, Z and F value has three decimals.
C8_Original ==
    Exported =>
        \A i \in 1..Len(ExpShapes) :
            FiniteShape(ExpShapes[i]) =>
                \A k \in 1..LinesOf(ExpShapes[i]) :
                    \A w \in 1..Len(ShapeLine(i, k).words) :
                        DecimalsOf(ShapeLine(i, k).words[w].n) = 3

\* C8, amended: in the lines of the shapes every X, Y and Z coordinate with a finite value
\* is written in fixed point with exactly three decimals; the feed values are the
\* literals 300.0 and 600.0, written with one decimal.
C8_Decimals ==
    Exported =>
        \A i \in 1..Len(ExpShapes) :
            \A k \in 1..LinesOf(ExpShapes[i]) :
                \A w \in 1..Len(ShapeLine(i, k).words) :
                    LET word == ShapeLine(i, k).words[w] IN
                    /\ word.l \in {"X", "Y", "Z", "F"}
                    /\ word.l = "Z" => DecimalsOf(word.n) = 3
                    /\ (word.l \in {"X", "Y"} /\ FiniteShape(ExpShapes[i])) =>
                           /\ DecimalsOf(word.n) = 3
                           /\ \A c \in 1..Len(word.n) : word.n[c] \in {"-", "."} \/ DigitVal(word.n[c]) >= 0
                    /\ word.l = "F" => DecimalsOf(word.n) = 1

\* a rectangle with a corner that is no multiple of 0.001 has been exported
C8_Witness ==
    /\ Exported
    /\ \E i \in 1..Len(ExpShapes) :
           /\ ExpShapes[i].type = "rect" /\ FiniteShape(ExpShapes[i])
           /\ ExpShapes[i].x = Sx(3)
           /\ WordOf(ShapeLine(i, 1), "X") = <<"0", ".", "1", "8", "8">>

----------------------------------------------------------------------------
(* SpecDoc: Material, Document.from_json and Document.to_json applied to inputs *)

Chars100 == <<"1", "0", "0", ".", "0">>

\* the floats a Material is constructed from: 0, -5, 0.0625, 100 and the non-finite ones
FloatInputs == {Sx(0), Sx(-80), Sx(1), Sx(1600), NaN, PosInf, NegInf}

\* the values a persisted material field holds: numbers, good and bad, null and a string
BadFieldJson ==
    { JNum(<<"0">>), JNum(<<"-", "5">>), JNum(<<"N", "a", "N">>),
      JNum(<<"I", "n", "f", "i", "n", "i", "t", "y">>),
      JNum(<<"-", "I", "n", "f", "i", "n", "i", "t", "y">>),
      JNull, JStr("wide") }

GoodMaterialJson == [width |-> JNum(Chars100), height |-> JNum(<<"0", ".", "0", "6", "2", "5">>),
                     thickness |-> JNum(<<"1", "0">>)]

MaterialJsonInputs ==
    {JObj(GoodMaterialJson)}
    \cup {JObj([GoodMaterialJson EXCEPT ![k] = b]) : k \in {"width", "height", "thickness"}, b \in BadFieldJson}
    \cup { JObj([width |-> JNum(Chars100), height |-> JNum(Chars100)]),
           JObj([width |-> JNum(Chars100), thickness |-> JNum(Chars100)]),
           JObj([height |-> JNum(Chars100), thickness |-> JNum(Chars100)]),
           JNull }

\* the entries of a persisted shape list: the two variants, a triangle, an entry without a
\* tag, one whose tag is a number, entries with a missing or a null field, a bare number
ShapeJsonInputs ==
    { ShapeToJson(RectSpec(Sx(0), Sx(0), Sx(160), Sx(80))),
      ShapeToJson(CircleSpec(Sx(16), Sx(3), Sx(160))),
      JObj([type |-> JStr("triangle"), x |-> JNum(<<"1">>), y |-> JNum(<<"2">>)]),
      JObj([x |-> JNum(<<"1">>), y |-> JNum(<<"2">>), w |-> JNum(<<"3">>), h |-> JNum(<<"4">>)]),
      JObj([type |-> JNum(<<"7">>), cx |-> JNum(<<"1">>), cy |-> JNum(<<"2">>), r |-> JNum(<<"3">>)]),
      JObj([type |-> JStr("rect"), x |-> JNum(<<"1">>), y |-> JNum(<<"2">>), w |-> JNum(<<"3">>)]),
      JObj([type |-> JStr("circle"), cx |-> JNum(<<"1">>), cy |-> JNum(<<"2">>), r |-> JNull]),
      JNum(<<"4", "2">>) }

TextInputs ==
    {Text(JObj([material |-> m, shapes |-> JArr(ss)]))
        : m \in MaterialJsonInputs, ss \in SeqsUpTo(ShapeJsonInputs, MaxShapes)}
    \cup { MalformedText,
           Text(JArr(<<>>)),
           Text(JObj([shapes |-> JArr(<<>>)])),
           Text(JObj([material |-> JObj(GoodMaterialJson)])),
           Text(JObj([material |-> JObj(GoodMaterialJson), shapes |-> JNull])) }

ValidMaterials ==
    { DefaultMaterial, [width |-> Sx(1), height |-> Sx(5), thickness |-> Sx(3)] }

InitDoc ==
    /\ WindowInit
    /\ fs = InitialFiles
    /\ call \in {[op |-> "Material", arg |-> [w |-> w, h |-> h, t |-> t]]
                    : w \in FloatInputs, h \in FloatInputs, t \in FloatInputs}
           \cup {[op |-> "from_json", arg |-> data] : data \in TextInputs}
           \cup {[op |-> "round_trip", arg |-> Document(m, ss)]
                    : m \in ValidMaterials, ss \in SeqsUpTo(ShapeInputs, MaxShapes)}
    /\ ret = NoRet

RunMaterial ==
    /\ call.op = "Material"
    /\ ~ret.done
    /\ ret' = Ret(Material(call.arg.w, call.arg.h, call.arg.t))
    /\ UNCHANGED <<windowVars, fs, call>>

RunFromJson ==
    /\ call.op = "from_json"
    /\ ~ret.done
    /\ ret' = Ret(from_json(call.arg))
    /\ UNCHANGED <<windowVars, fs, call>>

RunRoundTrip ==
    /\ call.op = "round_trip"
    /\ ~ret.done
    /\ ret' = Ret(from_json(to_json(call.arg)))
    /\ UNCHANGED <<windowVars, fs, call>>

NextDoc == RunMaterial \/ RunFromJson \/ RunRoundTrip

SpecDoc == InitDoc /\ [][NextDoc]_vars

Loaded == call.op = "from_json" /\ ret.done

\* what a text holds, read off the text alone
IsDocObject(data) == data.wf /\ data.val.t = "obj"
ShapeEntries(data) ==
    IF IsDocObject(data) /\ "shapes" \in DOMAIN data.val.o /\ data.val.o["shapes"].t = "arr"
    THEN data.val.o["shapes"].a ELSE <<>>
\* the shapes list has an entry with a type tag other than "rect" and "circle"
HasUnknownTag(data) ==
    \E i \in 1..Len(ShapeEntries(data)) : HasTag(ShapeEntries(data)[i]) /\ ~KnownTag(ShapeEntries(data)[i])

----------------------------------------------------------------------------
(* C1 *)

\* C1: loading a text whose shapes list has an entry with a type tag other than "rect" and
\* "circle" fails as a whole; it never succeeds with that entry dropped.
C1_UnknownTagFails ==
    (Loaded /\ HasUnknownTag(call.arg)) => ~ret.val.ok

\* a text has been read whose only fault is a triangle after a valid rectangle
C1_Witness ==
    /\ Loaded
    /\ HasUnknownTag(call.arg)
    /\ Len(ShapeEntries(call.arg)) = 2
    /\ KnownTag(ShapeEntries(call.arg)[1])
    /\ ShapeEntries(call.arg)[2].o["type"] = JStr("triangle")
    /\ ~ret.val.ok /\ ret.val.errors = {"union_tag_invalid"}

----------------------------------------------------------------------------
(* C2 *)

\* a dimension no Material may hold: non-finite, or not above zero
BadDimension(f) == ~IsFinite(f) \/ f.m <= 0

MaterialNumbers(data) ==
    IF /\ IsDocObject(data) /\ "material" \in DOMAIN data.val.o /\ data.val.o["material"].t = "obj"
       /\ \A k \in {"width", "height", "thickness"} :
              k \in DOMAIN data.val.o["material"].o /\ data.val.o["material"].o[k].t = "num"
    THEN {ParseNumber(data.val.o["material"].o[k].n) : k \in {"width", "height", "thickness"}}
    ELSE {}

\* C2: constructing a Material, or reading a Document whose material is such, fails when
\* its width, height or thickness is NaN, +infinity, -infinity or <= 0.
C2_Original ==
    /\ (call.op = "Material" /\ ret.done
            /\ \E f \in {call.arg.w, call.arg.h, call.arg.t} : BadDimension(f))
           => ~ret.val.ok
    /\ (Loaded /\ \E f \in MaterialNumbers(call.arg) : BadDimension(f))
           => ~ret.val.ok

----------------------------------------------------------------------------
(* C3 *)

RoundTripped == call.op = "round_trip" /\ ret.done

\* C3 as stated: from_json(to_json(d)) succeeds and yields d for every Document d of a
\* valid Material and any RectSpec and CircleSpec.
C3_Original ==
    RoundTripped => (ret.val.ok /\ ret.val.val = call.arg)

\* C3, amended: for every Document d of a valid Material and shapes whose fields are all
\* finite (any number of them, duplicates included), from_json(to_json(d)) succeeds and
\* yields the same Material fields and the same shapes in the same order, variant by
\* variant and field by field.
C3_RoundTrip ==
    (RoundTripped /\ \A i \in 1..Len(call.arg.shapes) : FiniteShape(call.arg.shapes[i]))
        => /\ ret.val.ok
           /\ ret.val.val.material = call.arg.material
           /\ Len(ret.val.val.shapes) = Len(call.arg.shapes)
           /\ \A i \in 1..Len(call.arg.shapes) : ret.val.val.shapes[i] = call.arg.shapes[i]

\* a Document holding the same circle twice, its fields no multiples of 0.001, has come back
C3_Witness ==
    /\ RoundTripped
    /\ Len(call.arg.shapes) = 2
    /\ call.arg.shapes[1] = call.arg.shapes[2]
    /\ call.arg.shapes[1] = CircleSpec(Sx(-8), Sx(1), Sx(0))
    /\ call.arg.material.width = Sx(1)
    /\ ret.val.ok

----------------------------------------------------------------------------
(* C9 *)

\* the one cause a text fails for, "none" if it has none, "several" if it has more
FormatCause(data) == ~data.wf
ValidationCause(data) == \E f \in MaterialNumbers(data) : BadDimension(f)
FieldsMissing(j, keys) == j.t # "obj" \/ \E k \in keys : k \notin DOMAIN j.o \/ j.o[k].t # "num"
SchemaCause(data) ==
    /\ data.wf
    /\ \/ data.val.t # "obj"
       \/ "material" \notin DOMAIN data.val.o
       \/ FieldsMissing(data.val.o["material"], {"width", "height", "thickness"})
       \/ ("shapes" \in DOMAIN data.val.o /\ data.val.o["shapes"].t # "arr")
       \/ \E i \in 1..Len(ShapeEntries(data)) :
              LET j == ShapeEntries(data)[i] IN
              \/ ~HasTag(j)
              \/ KnownTag(j) /\ j.o["type"].s = "rect" /\ FieldsMissing(j, {"x", "y", "w", "h"})
              \/ KnownTag(j) /\ j.o["type"].s = "circle" /\ FieldsMissing(j, {"cx", "cy", "r"})
Causes(data) ==
    {c \in {"format", "schema", "variant", "validation"} :
        \/ c = "format" /\ FormatCause(data)
        \/ c = "schema" /\ SchemaCause(data)
        \/ c = "variant" /\ HasUnknownTag(data)
        \/ c = "validation" /\ ValidationCause(data)}

\* one text of each cause
CauseSamples ==
    { MalformedText,
      Text(JObj([shapes |-> JArr(<<>>)])),
      Text(JObj([material |-> JObj(GoodMaterialJson),
                 shapes |-> JArr(<<JObj([type |-> JStr("triangle")])>>)])),
      Text(JObj([material |-> JObj([GoodMaterialJson EXCEPT !["width"] = JNum(<<"0">>)]),
                 shapes |-> JArr(<<>>)])) }

\* C9: a text with one of the four causes fails to load, and the kind of the error tells
\* the cause: texts failing for different causes fail with errors of different kinds.
C9_Original ==
    (Loaded /\ Cardinality(Causes(call.arg)) = 1) =>
        /\ ~ret.val.ok
        /\ \A other \in CauseSamples :
               (Cardinality(Causes(other)) = 1 /\ Causes(other) # Causes(call.arg))
                   => from_json(other).kind # ret.val.kind

----------------------------------------------------------------------------
(* view/canvas.py *)

\* QGraphicsRectItem / QGraphicsEllipseItem with the rectangle (x, y, w, h)
Item(kind, x, y, w, h) == [kind |-> kind, x |-> x, y |-> y, w |-> w, h |-> h, workspace |-> FALSE]

\* QGraphicsScene.items(): descending stacking order, the item added last first and the
\* workspace rectangle (z = -100, added first) last
SceneItems(scn) == Reversed(scn)

\* CanvasView.export_shape_specs
export_shape_specs(scn) ==
    LET kept == SelectSeq(SceneItems(scn), LAMBDA it : ~it.workspace)
    IN  [i \in 1..Len(kept) |->
            IF kept[i].kind = "rect"
            THEN RectSpec(kept[i].x, kept[i].y, kept[i].w, kept[i].h)
            ELSE CircleSpec(FAdd(kept[i].x, FHalf(kept[i].w)), FAdd(kept[i].y, FHalf(kept[i].h)),
                            FHalf(kept[i].w))]

\* CanvasView.add_shape_from_spec
add_shape_from_spec(scn, spec) ==
    IF spec.type = "rect" THEN Append(scn, Item("rect", spec.x, spec.y, spec.w, spec.h))
    ELSE IF spec.type = "circle"
         THEN Append(scn, Item("ellipse", FSub(spec.cx, spec.r), FSub(spec.cy, spec.r),
                               FDouble(spec.r), FDouble(spec.r)))
    ELSE scn

RECURSIVE AddShapes(_, _)
AddShapes(scn, specs) ==
    IF Len(specs) = 0 THEN scn ELSE AddShapes(add_shape_from_spec(scn, Head(specs)), Tail(specs))

\* CanvasView.clear_shapes: every item but the workspace rectangle goes
clear_shapes(scn) == SelectSeq(scn, LAMBDA it : it.workspace)

\* CanvasView._clear_preview: the scene without the item being dragged
WithoutPreview(scn, pv) ==
    IF pv.idx = 0 THEN scn
    ELSE [i \in 1..(Len(scn) - 1) |-> IF i < pv.idx THEN scn[i] ELSE scn[i + 1]]

\* where the pointer is pressed, and where it is dragged to
PressPoints == { [x |-> Sx(0), y |-> Sx(0)] }
MovePoints == { [x |-> Sx(32), y |-> Sx(16)] }

Drawn(scn) == Len(SelectSeq(scn, LAMBDA it : ~it.workspace))

\* CanvasView.set_tool
set_tool(t) ==
    /\ t \in {"select", "rect", "circle"}
    /\ tool' = t
    /\ scene' = WithoutPreview(scene, preview)
    /\ preview' = NoPreview
    /\ UNCHANGED <<document, current_file, fs, last, call, ret>>

\* CanvasView.mousePressEvent, left button, with a drawing tool.  The left button is
\* released before it is pressed again (no drag is under way), and the number of
\* items drawn is capped by MaxItems.
mousePressEvent(pos) ==
    /\ tool \in {"rect", "circle"}
    /\ preview.idx = 0
    /\ Drawn(scene) < MaxItems
    /\ scene' = Append(scene, Item(IF tool = "rect" THEN "rect" ELSE "ellipse", Sx(0), Sx(0), Sx(0), Sx(0)))
    /\ preview' = [idx |-> Len(scene) + 1, start |-> pos]
    /\ UNCHANGED <<document, current_file, tool, fs, last, call, ret>>

\* QRectF(a, b).normalized()
NormalizedRect(a, b) ==
    [x |-> FMin(a.x, b.x), y |-> FMin(a.y, b.y),
     w |-> [cls |-> "fin", m |-> Abs(b.x.m - a.x.m), e |-> 0],
     h |-> [cls |-> "fin", m |-> Abs(b.y.m - a.y.m), e |-> 0]]

\* CanvasView.mouseMoveEvent while dragging
mouseMoveEvent(pos) ==
    /\ preview.idx # 0
    /\ LET rect == NormalizedRect(preview.start, pos)
           side == FMin(rect.w, rect.h)
           it == scene[preview.idx]
       IN  scene' = [scene EXCEPT ![preview.idx] =
                        IF it.kind = "rect" THEN Item("rect", rect.x, rect.y, rect.w, rect.h)
                        ELSE Item("ellipse", rect.x, rect.y, side, side)]
    /\ UNCHANGED <<document, current_file, tool, preview, fs, last, call, ret>>

\* CanvasView.mouseReleaseEvent, left button, while dragging
mouseReleaseEvent ==
    /\ preview.idx # 0
    /\ preview' = NoPreview
    /\ UNCHANGED <<document, current_file, scene, tool, fs, last, call, ret>>

----------------------------------------------------------------------------
(* ui/main_window.py *)

\* a sync that leaves the document's shape list as the last sync or load left it
SyncStale(doc, scn) == doc

\* MainWindow._sync_document_from_canvas
_sync_document_from_canvas(doc, scn) == [doc EXCEPT !.shapes = export_shape_specs(scn)]

\* MainWindow._sync_canvas_from_document: the workspace sized to the material, the shapes
\* cleared, one item added per shape
_sync_canvas_from_document(doc) ==
    AddShapes(<<WorkspaceItem(doc.material.width, doc.material.height)>>, doc.shapes)

\* path.read_text(): the text of a file; what is no design file is no well-formed JSON
ReadText(content) == IF content.kind = "json" THEN content.data ELSE MalformedText

\* Document.load_json: a missing file raises OSError, a bad text ValidationError
load_json(path) ==
    IF fs[path].kind = "absent" THEN [ok |-> FALSE, kind |-> "OSError", errors |-> {}]
    ELSE from_json(ReadText(fs[path]))

\* what `last` keeps of a file action: the action and how it ended ("ok", "failed" when
\* the load or the write raised, "cancelled" when the dialog returned no path)
Did(op, outcome, path) == [op |-> op, outcome |-> outcome]

action_new ==
    /\ document' = Document(document.material, <<>>)
    /\ scene' = clear_shapes(scene)
    /\ preview' = NoPreview
    /\ current_file' = NoPath
    /\ last' = Did("new", "ok", NoPath)
    /\ UNCHANGED <<tool, fs, call, ret>>

\* path_str is what the dialog returns, "" when it is cancelled
action_open(path_str) ==
    /\ path_str \in Paths \cup {NoPath}
    /\ IF path_str = NoPath
       THEN /\ last' = Did("open", "cancelled", NoPath)
            /\ UNCHANGED <<document, current_file, scene, preview>>
       ELSE LET loaded == load_json(path_str) IN
            IF ~loaded.ok
            THEN /\ last' = Did("open", "failed", path_str)
                 /\ UNCHANGED <<document, current_file, scene, preview>>
            ELSE /\ document' = loaded.val
                 /\ current_file' = path_str
                 /\ scene' = _sync_canvas_from_document(loaded.val)
                 /\ preview' = NoPreview
                 /\ last' = Did("open", "ok", path_str)
    /\ UNCHANGED <<tool, fs, call, ret>>

\* the try block of action_save and action_save_as: the document is synced from the
\* canvas, then written to path; written tells whether write_text succeeds
SyncAndSave(op, path, written) ==
    /\ document' = _sync_document_from_canvas(document, scene)
    /\ fs' = IF written THEN [fs EXCEPT ![path] = JsonFile(to_json(document'))] ELSE fs
    /\ last' = Did(op, IF written THEN "ok" ELSE "failed", path)

action_save(path_str, written) ==
    /\ path_str \in Paths \cup {NoPath}
    /\ IF current_file = NoPath
       THEN IF path_str = NoPath
            THEN /\ last' = Did("save", "cancelled", NoPath)
                 /\ UNCHANGED <<document, current_file, fs>>
            ELSE /\ current_file' = path_str
                 /\ SyncAndSave("save", path_str, written)
       ELSE /\ SyncAndSave("save", current_file, written)
            /\ UNCHANGED current_file
    /\ UNCHANGED <<scene, tool, preview, call, ret>>

action_save_as(path_str, written) ==
    /\ path_str \in Paths \cup {NoPath}
    /\ IF path_str = NoPath
       THEN /\ last' = Did("save_as", "cancelled", NoPath)
            /\ UNCHANGED <<document, current_file, fs>>
       ELSE /\ current_file' = path_str
            /\ SyncAndSave("save_as", path_str, written)
    /\ UNCHANGED <<scene, tool, preview, call, ret>>

action_export_gcode(path_str, written) ==
    /\ path_str \in Paths \cup {NoPath}
    /\ IF path_str = NoPath
       THEN /\ last' = Did("export", "cancelled", NoPath)
            /\ UNCHANGED <<document, fs>>
       ELSE /\ document' = _sync_document_from_canvas(document, scene)
            /\ fs' = IF written THEN [fs EXCEPT ![path_str] = GcodeFile(export_gcode(document'))] ELSE fs
            /\ last' = Did("export", IF written THEN "ok" ELSE "failed", path_str)
    /\ UNCHANGED <<current_file, scene, tool, preview, call, ret>>

\* the design files found on disk when the program starts: none, a design with a circle,
\* a design with a shape of an unknown variant
FoundFiles ==
    { Absent,
      JsonFile(to_json(Document(DefaultMaterial, <<CircleSpec(Sx(16), Sx(3), Sx(160))>>))),
      JsonFile(Text(JObj([material |-> JObj(GoodMaterialJson),
                          shapes |-> JArr(<<JObj([type |-> JStr("triangle")])>>)]))) }

Init ==
    /\ WindowInit
    /\ fs \in {[InitialFiles EXCEPT !["a.json"] = f] : f \in FoundFiles}
    /\ call = NoCall
    /\ ret = NoRet

Next ==
    \/ \E t \in {"select", "rect", "circle"} : set_tool(t)
    \/ \E pos \in PressPoints : mousePressEvent(pos)
    \/ \E pos \in MovePoints : mouseMoveEvent(pos)
    \/ mouseReleaseEvent
    \/ action_new
    \/ \E p \in Paths \cup {NoPath} : action_open(p)
    \/ \E p \in Paths \cup {NoPath}, written \in BOOLEAN : action_save(p, written)
    \/ \E p \in Paths \cup {NoPath}, written \in BOOLEAN : action_save_as(p, written)
    \/ \E p \in Paths \cup {NoPath}, written \in BOOLEAN : action_export_gcode(p, written)

Spec == Init /\ [][Next]_vars

----------------------------------------------------------------------------
(* C10 *)

\* the last file action wrote a file
Wrote(op) == last.op = op /\ last.outcome = "ok"

\* the path action_save and action_save_as write to
SavePath(path_str) == IF current_file = NoPath THEN path_str ELSE current_file

\* C10: every action_save, action_save_as and action_export_gcode that writes a file has
\* first replaced the document's shape list by the list derived from the canvas as it is
\* then, and it is this list that the file holds.
C10_WritesCanvasShapes ==
    [][\A p \in Paths :
        LET derived == Document(document.material, export_shape_specs(scene)) IN
        /\ action_save(p, TRUE) =>
               /\ document'.shapes = export_shape_specs(scene)
               /\ fs'[SavePath(p)] = JsonFile(to_json(derived))
        /\ action_save_as(p, TRUE) =>
               /\ document'.shapes = export_shape_specs(scene)
               /\ fs'[p] = JsonFile(to_json(derived))
        /\ action_export_gcode(p, TRUE) =>
               /\ document'.shapes = export_shape_specs(scene)
               /\ fs'[p] = GcodeFile(export_gcode(derived))]_vars

\* a save has written the rectangle drawn on the canvas since the document was created
C10_Witness ==
    /\ Wrote("save")
    /\ current_file # NoPath
    /\ Len(document.shapes) > 0
    /\ document.shapes[1].type = "rect" /\ document.shapes[1].w # Sx(0)
    /\ fs[current_file] = JsonFile(to_json(document))

----------------------------------------------------------------------------
(* C11 *)

\* the height a Z word gives, in thousandths of a millimetre ("5.0" and "5.000" are 5000)
HeightOf(chars) ==
    LET dot == IndexOf(chars, ".")
        frac == SubSeq(chars, dot + 1, Len(chars))
    IN  1000 * CharsToNat(SubSeq(chars, 1, dot - 1)) + CharsToNat(frac) * Pow10(3 - Len(frac))

\* the heights of "G0 Z5.0" / "G0 Z5.000" and of "G1 Z0.000", in thousandths
SafeHeight == 5 * 1000
CutDepth == 0 * 1000

\* the height of the tool once the first n lines of the program have been executed:
\* what the last Z word among them says, -1 while no line has set it
ZAfter(n) ==
    LET zs == {k \in 1..n : HasWord(Program[k], "Z")}
    IN  IF zs = {} THEN -1
        ELSE HeightOf(WordOf(Program[CHOOSE k \in zs : \A j \in zs : j <= k], "Z"))

MovesXY(line) == HasWord(line, "X") \/ HasWord(line, "Y")

\* C11: executing the lines of an exported program in order, every rapid XY move is made
\* with the tool at the safe height 5, every cutting XY move with the tool at the cut
\* depth 0, and the tool is at the safe height when the program ends.
C11_ToolHeight ==
    Exported =>
        /\ \A n \in 1..Len(Program) :
               MovesXY(Program[n]) =>
                   /\ Program[n].cmd \in {"G0", "G1"}
                   /\ Program[n].cmd = "G0" => ZAfter(n - 1) = SafeHeight
                   /\ Program[n].cmd = "G1" => ZAfter(n - 1) = CutDepth
        /\ ZAfter(Len(Program)) = SafeHeight

\* two rectangles have been exported: the second one's rapid follows the first one's cut
C11_Witness ==
    /\ Exported
    /\ Len(ExpShapes) = 2
    /\ ExpShapes[1].type = "rect" /\ ExpShapes[1].w # Sx(0)
    /\ ExpShapes[2].type = "rect"
    /\ \E n \in 2..Len(Program) :
           /\ MovesXY(Program[n]) /\ Program[n].cmd = "G0"
           /\ \E k \in 1..(n - 1) : MovesXY(Program[k]) /\ Program[k].cmd = "G1"

----------------------------------------------------------------------------
(* C12 *)

\* the step is an action_open, action_save or action_save_as whose load or write raised
FailedFileAction ==
    /\ \E p \in Paths \cup {NoPath} :
           \/ action_open(p)
           \/ \E written \in BOOLEAN : action_save(p, written) \/ action_save_as(p, written)
    /\ last'.outcome = "failed"

\* C12: an action_open, action_save or action_save_as that fails leaves current_file as
\* it was before the action started.
C12_Original ==
    [][FailedFileAction => current_file' = current_file]_vars

====
